---- MODULE Spec2Model ----
(***************************************************************************)
(* SceneManager (Three.js/js/SceneManager.js): the scene graph with its    *)
(* selective clear/dispose, and the camera framing operations.             *)
(*                                                                         *)
(* The three.js objects the class drives are modelled by what three.js     *)
(* does with them: Object3D.add/remove/traverse, Box3 (union, getCenter,   *)
(* getSize, expandByObject), and OrbitControls.update with the limits      *)
(* that initControls configures.  Node transforms are translations only.   *)
(* Lengths are integers in units of 1/Scale, so that the halving in        *)
(* Box3.getCenter is exact, as it is for the doubles of the program.       *)
(***************************************************************************)
EXTENDS Integers, FiniteSets, Sequences, TLC

VARIABLES scene, children, position, disposed, addCount, centerings,
          camera, controls, renderer, console, lastOp, raised, again

vars == <<scene, children, position, disposed, addCount, centerings,
          camera, controls, renderer, console, lastOp, raised, again>>

(* ------------------------------ bounds --------------------------------- *)

\* addToScene calls explored in one run
MaxAdds == 2

\* centerModel calls that move nodes explored in one run
MaxCenterings == 1

\* one program length unit is Scale model units; every centerModel halves
\* the grid the node positions lie on, getCenter halves it once more
Scale == 2 ^ (MaxCenterings + 1)

(* ------------------------- vectors and boxes --------------------------- *)

Vec(x, y, z) == <<x * Scale, y * Scale, z * Scale>>

Origin == Vec(0, 0, 0)

VAdd(a, b) == <<a[1] + b[1], a[2] + b[2], a[3] + b[3]>>

VSub(a, b) == <<a[1] - b[1], a[2] - b[2], a[3] - b[3]>>

LengthSq(v) == v[1] * v[1] + v[2] * v[2] + v[3] * v[3]

MinOf(S) == CHOOSE m \in S : \A s \in S : m <= s

MaxOf(S) == CHOOSE m \in S : \A s \in S : m >= s

EmptyBox == [empty |-> TRUE, min |-> Origin, max |-> Origin]

\* Box3.union over a set of non-empty boxes; the union of none is empty
UnionBox(boxes) ==
    IF boxes = {} THEN EmptyBox
    ELSE [empty |-> FALSE,
          min |-> << MinOf({b.min[1] : b \in boxes}),
                     MinOf({b.min[2] : b \in boxes}),
                     MinOf({b.min[3] : b \in boxes}) >>,
          max |-> << MaxOf({b.max[1] : b \in boxes}),
                     MaxOf({b.max[2] : b \in boxes}),
                     MaxOf({b.max[3] : b \in boxes}) >>]

\* Box3.getCenter: (0,0,0) for the empty box, else (min + max) * 0.5
GetCenter(box) ==
    IF box.empty THEN Origin
    ELSE << (box.min[1] + box.max[1]) \div 2,
            (box.min[2] + box.max[2]) \div 2,
            (box.min[3] + box.max[3]) \div 2 >>

\* Box3.getSize: (0,0,0) for the empty box, else max - min
GetSize(box) == IF box.empty THEN Origin ELSE VSub(box.max, box.min)

(* --------------------------- the objects ------------------------------- *)

\* what initScene and initLights (and initSceneElements) put in the scene
Furniture == {"gridHelper", "axesHelper", "ambientLight", "directionalLight"}

\* objects the host passes to addToScene
Roots == {"group", "tower", "terrain", "stub", "blank"}

\* objects that come along as children of a root
Nested == {"wall", "lamp", "roof"}

Nodes == Furniture \cup Roots \cup Nested

NoGeometry == [kind |-> "none", min |-> <<0, 0, 0>>, max |-> <<0, 0, 0>>]

NoVertices == [kind |-> "empty", min |-> <<0, 0, 0>>, max |-> <<0, 0, 0>>]

Cube(h) == [kind |-> "box", min |-> Vec(0 - h, 0 - h, 0 - h), max |-> Vec(h, h, h)]

NoMaterial == [array |-> FALSE, items |-> << >>]

One(hasMap) == [array |-> FALSE, items |-> << [map |-> hasMap] >>]

Many(items) == [array |-> TRUE, items |-> items]

Obj(type, parent, geometry, material, at) ==
    [type |-> type, parent |-> parent, geometry |-> geometry,
     material |-> material, at |-> at]

Object ==
    [n \in Nodes |->
       CASE n = "gridHelper"       -> Obj("GridHelper", "scene", Cube(10), One(FALSE), Origin)
         [] n = "axesHelper"       -> Obj("AxesHelper", "scene", Cube(0), One(FALSE), Origin)
         [] n = "ambientLight"     -> Obj("AmbientLight", "scene", NoGeometry, NoMaterial, Origin)
         [] n = "directionalLight" -> Obj("DirectionalLight", "scene", NoGeometry, NoMaterial, Vec(10, 20, 15))
         \* an imported model: a group holding a multi-material mesh and a lamp
         [] n = "group"   -> Obj("Group", "scene", NoGeometry, NoMaterial, Vec(0, 0, 0))
         [] n = "wall"    -> Obj("Mesh", "group", Cube(1),
                                 Many(<< [map |-> TRUE], [map |-> FALSE] >>), Vec(-3, 1, 4))
         [] n = "lamp"    -> Obj("PointLight", "group", NoGeometry, NoMaterial, Vec(0, 4, 0))
         \* a mesh carrying another mesh
         [] n = "tower"   -> Obj("Mesh", "scene", Cube(1), One(FALSE), Vec(8, 1, 0))
         [] n = "roof"    -> Obj("Mesh", "tower", Cube(1), One(TRUE), Vec(0, 2, 0))
         \* a large mesh
         [] n = "terrain" -> Obj("Mesh", "scene", Cube(10), One(FALSE), Vec(0, 0, 0))
         \* a mesh whose geometry and material are not set
         [] n = "stub"    -> Obj("Mesh", "scene", NoGeometry, NoMaterial, Vec(2, 0, 2))
         \* new THREE.Mesh(): a geometry without vertices, a default material
         [] n = "blank"   -> Obj("Mesh", "scene", NoVertices, One(FALSE), Vec(0, 0, 0))]

\* object instanceof THREE.Light
IsLight(n) == Object[n].type \in {"AmbientLight", "DirectionalLight", "PointLight"}

\* object instanceof THREE.Light || GridHelper || AxesHelper
IsPermanent(n) == IsLight(n) \/ Object[n].type \in {"GridHelper", "AxesHelper"}

\* object.isMesh
IsMesh(n) == Object[n].type = "Mesh"

\* the resources a node owns: its geometry, its materials, their textures
ResourcesOf(n) ==
    (IF Object[n].geometry.kind = "none" THEN {} ELSE {<<n, "geometry", 0>>})
    \cup {<<n, "material", i>> : i \in DOMAIN Object[n].material.items}
    \cup {<<n, "map", i>> : i \in {j \in DOMAIN Object[n].material.items :
                                        Object[n].material.items[j].map}}

Resources == UNION {ResourcesOf(n) : n \in Nodes}

\* Object3D.children, transitively
RECURSIVE Subtree(_)
Subtree(n) == {n} \cup UNION {Subtree(c) : c \in {k \in Nodes : Object[k].parent = n}}

\* every object scene.traverse visits below the scene itself
InGraph(top) == UNION {Subtree(n) : n \in top}

\* Object3D.matrixWorld, translations only
RECURSIVE WorldPosition(_, _)
WorldPosition(n, pos) ==
    IF Object[n].parent = "scene" THEN pos[n]
    ELSE VAdd(WorldPosition(Object[n].parent, pos), pos[n])

(* ------------------------- Box3 over the graph ------------------------- *)

\* geometry.boundingBox carried to world space by object.matrixWorld
WorldBox(n, pos) ==
    [min |-> VAdd(Object[n].geometry.min, WorldPosition(n, pos)),
     max |-> VAdd(Object[n].geometry.max, WorldPosition(n, pos))]

\* Box3.expandByObject / setFromObject: the object and all its descendants;
\* an undefined geometry is skipped, a geometry without vertices has an
\* empty bounding box and adds nothing
ExpandByObject(n, pos) ==
    {WorldBox(k, pos) : k \in {d \in Subtree(n) : Object[d].geometry.kind = "box"}}

\* the objects both traversals collect: object.isMesh and not a helper/light
ModelMeshes(top) == {n \in InGraph(top) : IsMesh(n) /\ ~IsPermanent(n)}

\* the bounding box both operations accumulate over the collected meshes
ContentBounds(top, pos) == UnionBox(UNION {ExpandByObject(n, pos) : n \in ModelMeshes(top)})

(* --------------------------- OrbitControls ----------------------------- *)

minDistance == 1

maxDistance == 50

\* OrbitControls.update() with no pending user input: the camera offset from
\* the target is clamped to maxPolarAngle = PI/2 (not below the target) and
\* to [minDistance, maxDistance], the camera is put at target + offset and
\* turned to the target.  A clamped offset is not a grid point: position
\* keeps the value last assigned and pulled names the clamps that moved the
\* camera away from it.
ControlsClamps(pos, target) ==
    LET offset == VSub(pos, target)
    IN  (IF offset[2] < 0 THEN {"maxPolarAngle"} ELSE {})
        \cup (IF LengthSq(offset) < (minDistance * Scale) * (minDistance * Scale)
              THEN {"minDistance"} ELSE {})
        \cup (IF LengthSq(offset) > (maxDistance * Scale) * (maxDistance * Scale)
              THEN {"maxDistance"} ELSE {})

ControlsUpdate(cam, target) ==
    [cam EXCEPT !.pulled = @ \cup ControlsClamps(cam.position, target),
                !.lookAt = target]

\* camera.position.set(p); camera.lookAt(at)
Aim(cam, p, at) == [cam EXCEPT !.position = p, !.pulled = {}, !.lookAt = at]

\* the camera is exactly at p
CameraAt(cam, p) == cam.position = p /\ cam.pulled = {}

(* ----------------------------- clearScene ------------------------------ *)

Warned == "Scene was undefined, recreating it"

Cleared == "Scene cleared successfully while preserving lights"

\* initSceneElements: grid, axes, then initLights
InitSceneElements(top) == top \cup Furniture

LightsAndHelpers(top) == {n \in top : IsPermanent(n)}

ObjectsToRemove(top) == {n \in top : ~IsPermanent(n)}

\* geometry.dispose(), material.map.dispose() and material.dispose() of every
\* object of the set: one call on each resource the object itself owns
DisposeAll(objects, count) ==
    [r \in Resources |->
        IF \E n \in objects : r \in ResourcesOf(n) THEN count[r] + 1 ELSE count[r]]

\* a clearScene that releases the objects but leaves them in the scene
RemoveNone(top, objects) == top

\* this.scene.remove(object) for each object of the list
RemoveAll(top, objects) == top \ objects

ClearedAll == "Scene cleared successfully"

\* the clearScene defined first in the class: a missing scene is recreated
\* bare, and every child is released and removed, lights and helpers too
ClearSceneFirstDefinition(sc, top, count) ==
    IF ~sc
    THEN [scene |-> TRUE, children |-> {}, disposed |-> count, console |-> Warned]
    ELSE [scene |-> TRUE, children |-> RemoveAll(top, top),
          disposed |-> DisposeAll(top, count), console |-> ClearedAll]

\* the clearScene in force: the second definition replaces the first
ClearSceneResult(sc, top, count) ==
    IF ~sc
    THEN [scene |-> TRUE, children |-> InitSceneElements({}),
          disposed |-> count, console |-> Warned]
    ELSE LET kept == LightsAndHelpers(top)
             gone == ObjectsToRemove(top)
             left == RemoveAll(top, gone)
         IN  [scene |-> TRUE,
              children |-> IF kept = {} THEN InitSceneElements(left) ELSE left,
              disposed |-> DisposeAll(gone, count),
              console |-> Cleared]

(* ------------------------------- state --------------------------------- *)

Sizes == {<<800, 600>>, <<400, 400>>}

Ops == {"constructor", "addToScene", "clearScene", "reset", "onWindowResize",
        "setTopView", "setPerspectiveView", "resetCamera", "focusOnModel",
        "centerModel", "scene = undefined"}

TypeOK ==
    /\ scene \in BOOLEAN
    /\ children \subseteq (Furniture \cup Roots)
    /\ position \in [Nodes -> Int \X Int \X Int]
    /\ disposed \in [Resources -> Nat]
    /\ addCount \in [Roots -> 0..MaxAdds]
    /\ centerings \in 0..MaxCenterings
    /\ camera.pulled \subseteq {"maxPolarAngle", "minDistance", "maxDistance"}
    /\ camera.aspect \in Sizes /\ renderer.size \in Sizes
    /\ console \in {"", Warned, Cleared, ClearedAll}
    /\ lastOp \in Ops
    /\ raised \in BOOLEAN
    /\ again \in BOOLEAN

RECURSIVE Sum(_, _)
Sum(f, S) == IF S = {} THEN 0
             ELSE LET x == CHOOSE y \in S : TRUE IN f[x] + Sum(f, S \ {x})

\* the constructor: initScene, initCamera, initRenderer, initLights,
\* initControls (whose update() pulls the camera in from (50,50,50)), then
\* setPerspectiveView
Init ==
    /\ scene = TRUE
    /\ children = Furniture
    /\ position = [n \in Nodes |-> Object[n].at]
    /\ disposed = [r \in Resources |-> 0]
    /\ addCount = [n \in Roots |-> 0]
    /\ centerings = 0
    /\ controls = [target |-> Origin]
    /\ camera = ControlsUpdate(
                  Aim(ControlsUpdate([position |-> Vec(50, 50, 50), pulled |-> {},
                                      lookAt |-> Vec(50, 0, 0), aspect |-> <<800, 600>>],
                                     Origin),
                      Vec(10, 10, 10), Origin),
                  Origin)
    /\ renderer = [size |-> <<800, 600>>]
    /\ console = ""
    /\ lastOp = "constructor"
    /\ raised = FALSE
    /\ again = FALSE

\* the call returned (r = FALSE) or threw a TypeError (r = TRUE); again
\* tells a clearScene that directly follows a clearScene
Returned(op, r) ==
    /\ lastOp' = op
    /\ raised' = r
    /\ again' = (op = "clearScene" /\ lastOp = "clearScene")

(* ----------------------------- operations ------------------------------ *)

\* addToScene(object): this.scene.add(object)
AddToScene(n) ==
    /\ Sum(addCount, Roots) < MaxAdds
    /\ IF scene
       THEN /\ children' = children \cup {n}
            /\ addCount' = [addCount EXCEPT ![n] = @ + 1]
            /\ Returned("addToScene", FALSE)
       ELSE \* this.scene is undefined: reading .add throws
            /\ UNCHANGED <<children, addCount>>
            /\ Returned("addToScene", TRUE)
    /\ UNCHANGED <<scene, position, disposed, centerings, camera, controls,
                   renderer, console>>

ClearScene ==
    LET res == ClearSceneResult(scene, children, disposed)
    IN  /\ scene' = res.scene
        /\ children' = res.children
        /\ disposed' = res.disposed
        /\ console' = res.console
        /\ Returned("clearScene", FALSE)
        /\ UNCHANGED <<position, addCount, centerings, camera, controls, renderer>>

\* setTopView: position (0,20,0), lookAt origin, controls.update()
TopView(cam, target) == ControlsUpdate(Aim(cam, Vec(0, 20, 0), Origin), target)

\* setPerspectiveView: position (10,10,10), lookAt origin, controls.update()
PerspectiveView(cam, target) == ControlsUpdate(Aim(cam, Vec(10, 10, 10), Origin), target)

SetTopView ==
    /\ camera' = TopView(camera, controls.target)
    /\ Returned("setTopView", FALSE)
    /\ UNCHANGED <<scene, children, position, disposed, addCount, centerings,
                   controls, renderer, console>>

SetPerspectiveView ==
    /\ camera' = PerspectiveView(camera, controls.target)
    /\ Returned("setPerspectiveView", FALSE)
    /\ UNCHANGED <<scene, children, position, disposed, addCount, centerings,
                   controls, renderer, console>>

ResetCamera ==
    /\ camera' = PerspectiveView(camera, controls.target)
    /\ Returned("resetCamera", FALSE)
    /\ UNCHANGED <<scene, children, position, disposed, addCount, centerings,
                   controls, renderer, console>>

\* reset: clearScene, resetCamera, controls.update(), renderer.clear()
\* (renderer.clear touches the frame buffer only)
Reset ==
    LET res == ClearSceneResult(scene, children, disposed)
    IN  /\ scene' = res.scene
        /\ children' = res.children
        /\ disposed' = res.disposed
        /\ console' = res.console
        /\ camera' = ControlsUpdate(PerspectiveView(camera, controls.target),
                                    controls.target)
        /\ Returned("reset", FALSE)
        /\ UNCHANGED <<position, addCount, centerings, controls, renderer>>

\* onWindowResize: camera.aspect and renderer size from the container
OnWindowResize(size) ==
    /\ camera' = [camera EXCEPT !.aspect = size]
    /\ renderer' = [renderer EXCEPT !.size = size]
    /\ Returned("onWindowResize", FALSE)
    /\ UNCHANGED <<scene, children, position, disposed, addCount, centerings,
                   controls, console>>

\* the camera and target focusOnModel arrives at from a bounding box
Framed(cam, box) ==
    LET center   == GetCenter(box)
        size     == GetSize(box)
        maxDim   == MaxOf({size[1], size[2], size[3]})
        distance == maxDim * 2
    IN  ControlsUpdate(Aim(cam, VAdd(center, <<distance, distance, distance>>), center),
                       center)

FocusOnModel ==
    LET objects == ModelMeshes(children)
    IN  /\ IF ~scene
           THEN \* this.scene.traverse on undefined throws
                /\ UNCHANGED <<camera, controls>>
                /\ Returned("focusOnModel", TRUE)
           ELSE IF objects = {}
           THEN /\ UNCHANGED <<camera, controls>>
                /\ Returned("focusOnModel", FALSE)
           ELSE IF \E n \in objects : Object[n].geometry.kind = "none"
           THEN \* object.geometry.computeBoundingBox() on undefined throws,
                \* before the camera is touched
                /\ UNCHANGED <<camera, controls>>
                /\ Returned("focusOnModel", TRUE)
           ELSE /\ camera' = Framed(camera, ContentBounds(children, position))
                /\ controls' = [controls EXCEPT
                                  !.target = GetCenter(ContentBounds(children, position))]
                /\ Returned("focusOnModel", FALSE)
        /\ UNCHANGED <<scene, children, position, disposed, addCount, centerings,
                       renderer, console>>

\* the positions centerModel leaves: every collected mesh moved in x and z
Centered(top, pos) ==
    LET center == GetCenter(ContentBounds(top, pos))
    IN  [n \in Nodes |->
           IF n \in ModelMeshes(top)
           THEN <<pos[n][1] - center[1], pos[n][2], pos[n][3] - center[3]>>
           ELSE pos[n]]

CenterModel ==
    /\ IF ~scene \/ ModelMeshes(children) = {}
       THEN UNCHANGED <<position, centerings, camera, controls>>
       ELSE /\ centerings < MaxCenterings
            /\ position' = Centered(children, position)
            /\ centerings' = centerings + 1
            /\ controls' = [controls EXCEPT !.target = Origin]
            /\ camera' = ControlsUpdate(camera, Origin)
    /\ Returned("centerModel", FALSE)
    /\ UNCHANGED <<scene, children, disposed, addCount, renderer, console>>

\* the host leaves the scene field without a scene (the state the guards of
\* clearScene and centerModel test for)
DropScene ==
    /\ scene
    /\ scene' = FALSE
    /\ children' = {}
    /\ Returned("scene = undefined", FALSE)
    /\ UNCHANGED <<position, disposed, addCount, centerings, camera, controls,
                   renderer, console>>

Next ==
    \/ \E n \in Roots : AddToScene(n)
    \/ ClearScene
    \/ Reset
    \/ \E size \in Sizes : OnWindowResize(size)
    \/ SetTopView
    \/ SetPerspectiveView
    \/ ResetCamera
    \/ FocusOnModel
    \/ CenterModel
    \/ DropScene

Spec == Init /\ [][Next]_vars

(* ------------------------------ claims --------------------------------- *)

ContentIn(top) == {n \in InGraph(top) : ~IsPermanent(n)}

PermanentIn(top) == {n \in InGraph(top) : IsPermanent(n)}

\* C1: immediately after clearScene the graph still contains every permanent
\* node (light, grid, axes) that was in it before the call, top-level or
\* nested, and none of the content nodes that were in it before the call.
C1_ClearKeepsPermanentsOnly ==
    [][ClearScene =>
          /\ PermanentIn(children) \subseteq InGraph(children')
          /\ ContentIn(children) \cap InGraph(children') = {}]_vars

FramingOps == {"setTopView", "setPerspectiveView", "resetCamera", "reset",
               "focusOnModel", "centerModel"}

PresetOps == {"setTopView", "setPerspectiveView", "resetCamera", "reset"}

\* C2: after every framing or preset operation the controls target equals the
\* camera look-at point, and after a preset (setTopView, setPerspectiveView,
\* resetCamera, reset) that point is the origin, whatever focusOnModel did to
\* the controls target before.
C2_TargetFollowsLookAt ==
    /\ (lastOp \in FramingOps /\ ~raised) => controls.target = camera.lookAt
    /\ lastOp \in PresetOps => (controls.target = Origin /\ camera.lookAt = Origin)

\* C3: every content node that leaves the graph through clearScene, nested
\* ones included, has each of its resources (geometry, every material, every
\* material's texture) released exactly once by that call, and no resource
\* of a node that stays in the graph is released.
C3_ReleasedOnLeaving ==
    [][ClearScene =>
          \A n \in Nodes :
             /\ (n \in ContentIn(children) /\ n \notin InGraph(children'))
                   => \A r \in ResourcesOf(n) : disposed'[r] = disposed[r] + 1
             /\ (n \in InGraph(children) /\ n \in InGraph(children'))
                   => \A r \in ResourcesOf(n) : disposed'[r] = disposed[r]]_vars

\* the root object a node was handed to addToScene with
RECURSIVE RootOf(_)
RootOf(n) == IF Object[n].parent = "scene" THEN n ELSE RootOf(Object[n].parent)

AddsOf(n) == IF RootOf(n) \in Roots THEN addCount[RootOf(n)] ELSE 0

C5_PresetPose ==
    /\ lastOp = "setTopView" =>
          (CameraAt(camera, Vec(0, 20, 0)) /\ camera.lookAt = Origin)
    /\ lastOp \in {"setPerspectiveView", "resetCamera", "reset"} =>
          (CameraAt(camera, Vec(10, 10, 10)) /\ camera.lookAt = Origin)

\* C6: for every non-empty content bounding box, focusOnModel puts the camera
\* at center + (d,d,d), d = 2 * (largest extent of the box), and sets the
\* look-at point and the controls target to center, whatever the box size.
C6_FocusFormula ==
    [][(FocusOnModel /\ ~raised' /\ ~ContentBounds(children, position).empty) =>
          LET box    == ContentBounds(children, position)
              center == << (box.min[1] + box.max[1]) \div 2,
                           (box.min[2] + box.max[2]) \div 2,
                           (box.min[3] + box.max[3]) \div 2 >>
              d      == 2 * MaxOf({box.max[i] - box.min[i] : i \in 1..3})
          IN  /\ CameraAt(camera', <<center[1] + d, center[2] + d, center[3] + d>>)
              /\ camera'.lookAt = center
              /\ controls'.target = center]_vars

\* C7: when the content bounds have center (cx,cy,cz), centerModel moves every
\* content mesh by -cx in X and -cz in Z and leaves its Y, so that the content
\* bounds recomputed afterwards have center (0,cy,0), also with meshes nested
\* under meshes; no permanent node is moved; the controls target is (0,0,0).
C7_CenterModel ==
    [][(CenterModel /\ scene /\ ~ContentBounds(children, position).empty) =>
          LET c == GetCenter(ContentBounds(children, position))
          IN  /\ \A n \in ModelMeshes(children) :
                    position'[n] = <<position[n][1] - c[1], position[n][2],
                                     position[n][3] - c[3]>>
              /\ GetCenter(ContentBounds(children', position')) = <<0, c[2], 0>>
              /\ \A n \in Nodes : IsPermanent(n) => position'[n] = position[n]
              /\ controls'.target = Origin]_vars

\* C8: a clearScene that finds no scene returns normally and leaves a scene
\* holding exactly one ambient light, one directional light, one grid and
\* one axes helper, and no content node.
C8_RecoveryRestoresDefaults ==
    (lastOp = "clearScene" /\ console = Warned) =>
        /\ ~raised
        /\ scene
        /\ \A t \in {"AmbientLight", "DirectionalLight", "GridHelper", "AxesHelper"} :
              Cardinality({n \in InGraph(children) : Object[n].type = t}) = 1
        /\ Cardinality(InGraph(children)) = 4
        /\ ContentIn(children) = {}

\* C8 witness: content had been added, the scene was lost, and clearScene has
\* just recreated it
C8_Witness ==
    /\ lastOp = "clearScene" /\ console = Warned
    /\ \E n \in Roots : addCount[n] > 0

\* C9: no exposed operation raises to its caller, in any reachable state.
C9_NothingRaises == ~raised

\* C10: when the graph holds no content node with renderable geometry,
\* the content bounds are empty and focusOnModel and centerModel change
\* neither the camera position, nor its look-at point, nor the controls
\* target, nor any node position.
C10_NoContentNoOp ==
    [][((FocusOnModel \/ CenterModel) /\ scene
            /\ \A n \in ContentIn(children) : Object[n].geometry.kind # "box") =>
          /\ ContentBounds(children, position).empty
          /\ camera'.position = camera.position /\ camera'.pulled = camera.pulled
          /\ camera'.lookAt = camera.lookAt
          /\ controls'.target = controls.target
          /\ position' = position]_vars

====
